---- MODULE Spec2Model ----
(***************************************************************************)
(* Model of ConceptLattice (src/lattice.py): the Galois operators up and   *)
(* down, the closure operators, the Next Closure enumeration driven by     *)
(* extract_concepts, and the cover graph built by child_subchild_graph.    *)
(*                                                                         *)
(* Attributes are represented by their rank in Python's string order, the  *)
(* order that sorted(self.attributes, reverse=True) and `item < attribute` *)
(* use: attribute 1 sorts before attribute 2, and so on.  Entities are     *)
(* strings.  Concept ids are 0-based as in the code; the concept with id i *)
(* is concepts[i + 1].                                                     *)
(***************************************************************************)
EXTENDS Integers, Sequences, FiniteSets, TLC

\* Bounds of the enumerated contexts.
MaxEntities == 2
MaxAttrs == 3

EntityNames == <<"e1", "e2", "e3", "e4">>
Entities == {EntityNames[i] : i \in 1..MaxEntities}
AttrUniverse == 1..MaxAttrs

\* Ranks of the attribute names of small_relation in string order.
brown == 1
citrus == 2
crunchy == 3
curved == 4
orange == 5
purple == 6
red == 7
small == 8
sour == 9
starchy == 10
sweet == 11
yellow == 12

small_relation ==
  [e \in {"apple", "banana", "carrot", "grape", "lemon", "orange", "potato"} |->
     CASE e = "apple"  -> {red, sweet}
       [] e = "banana" -> {yellow, curved}
       [] e = "carrot" -> {orange, crunchy}
       [] e = "grape"  -> {purple, small}
       [] e = "lemon"  -> {yellow, sour}
       [] e = "orange" -> {orange, citrus}
       [] e = "potato" -> {brown, starchy}]

\* The relations handed to the constructor: every relation over the bounded
\* entity and attribute sets (any subset of the entities as keys, the empty
\* relation included), and the relation of the program's main block.
Contexts ==
  {small_relation} \cup UNION {[E -> SUBSET AttrUniverse] : E \in SUBSET Entities}

VARIABLES
  relation,           \* self.relation
  entities,           \* self.entities
  attributes,         \* self.attributes
  inverted_relation,  \* self.inverted_relation
  intensions,         \* local list of extract_concepts
  curr_closure,       \* local of extract_concepts
  concepts,           \* self.concepts
  pc,                 \* "extract" | "constructed" | "constructed_none"
                      \* | "AttributeError" | "TypeError"
  call                \* the last method call on the constructed object

lattice_vars == <<relation, entities, attributes, inverted_relation, intensions,
                  curr_closure, concepts, pc, call>>

\* Reasoner (src/horn_clauses.py)
VARIABLES
  implications,       \* self.implications, in the iteration order of the set
  knowledge_base,     \* self.knowledge_base
  stack,              \* the frames of backward_chain, the innermost last
  returned,           \* the value the last finished frame returned
  result              \* outcome of the outermost backward_chain call

reasoner_vars == <<implications, knowledge_base, stack, returned, result>>

vars == <<lattice_vars, reasoner_vars>>

Max(S) == CHOOSE x \in S : \A y \in S : y <= x

\* set.intersection(*F) for a non-empty family F of sets
Intersection(F) == {x \in UNION F : \A S \in F : x \in S}

attributes_of(rel) == UNION {rel[e] : e \in DOMAIN rel}

invert_relation(rel) ==
  [a \in attributes_of(rel) |-> {e \in DOMAIN rel : a \in rel[e]}]

----
\* Galois operators.  set.intersection() with no argument raises TypeError:
\* X_raises says when, and X is the value returned otherwise.

up_args(attribute_subset) ==
  {inverted_relation[attribute] :
     attribute \in attribute_subset \cap DOMAIN inverted_relation}

up_raises(attribute_subset) ==
  attribute_subset # {} /\ up_args(attribute_subset) = {}

up_union(attribute_subset) ==
  IF attribute_subset = {} THEN {} ELSE UNION up_args(attribute_subset)

up(attribute_subset) ==
  IF attribute_subset = {} THEN {} ELSE Intersection(up_args(attribute_subset))

down_args(entity_subset) ==
  {relation[entity] : entity \in entity_subset \cap DOMAIN relation}

down_raises(entity_subset) ==
  entity_subset # {} /\ down_args(entity_subset) = {}

down(entity_subset) ==
  IF entity_subset = {} THEN attributes ELSE Intersection(down_args(entity_subset))

closure_at_raises(attribute_subset) ==
  up_raises(attribute_subset) \/ down_raises(up(attribute_subset))

closure_at(attribute_subset) == down(up(attribute_subset))

closure_ent_raises(entity_subset) ==
  down_raises(entity_subset) \/ up_raises(down(entity_subset))

closure_ent(entity_subset) == up(down(entity_subset))

----
\* next_closure: the scan over sorted(self.attributes, reverse=True), as a
\* recursive function of the working copy and the attributes left to scan.
\* todo is the set of attributes not scanned yet, the largest is scanned next.
\* The result is [kind |-> "value", value |-> candidate] for a returned
\* candidate, kind "none" when the loop ends without a return (None), and
\* kind "raise" when closure_at raises.

lower_el_never(candidate, curr, attribute) == FALSE

lower_el_greater(candidate, curr, attribute) ==
  \E item \in candidate \ curr : item > attribute

lower_el(candidate, curr, attribute) ==
  \E item \in candidate \ curr : item < attribute

next_closure_scan[curr \in SUBSET attributes, todo \in SUBSET attributes] ==
  IF todo = {} THEN [kind |-> "none", value |-> {}]
  ELSE LET attribute == Max(todo)
           rest == todo \ {attribute}
       IN IF attribute \in curr
          THEN next_closure_scan[curr \ {attribute}, rest]
          ELSE LET temp_closure == curr \cup {attribute}
               IN IF closure_at_raises(temp_closure)
                  THEN [kind |-> "raise", value |-> {}]
                  ELSE LET candidate == closure_at(temp_closure)
                       IN IF candidate # curr
                             /\ ~lower_el(candidate, curr, attribute)
                          THEN [kind |-> "value", value |-> candidate]
                          ELSE next_closure_scan[curr, rest]

next_closure(last_closure) == next_closure_scan[last_closure, attributes]

----
\* Cover graph.

is_direct_child_no_between(parent, child) ==
  parent.data.intension \subseteq child.data.intension
  /\ parent.data.intension # child.data.intension

is_direct_child(parent, child) ==
  LET parent_int == parent.data.intension
      child_int == child.data.intension
      StrictSub(S, T) == S \subseteq T /\ S # T
  IN StrictSub(parent_int, child_int)
     /\ \A k \in 1..Len(concepts) :
          ~(StrictSub(parent_int, concepts[k].data.intension)
            /\ StrictSub(concepts[k].data.intension, child_int))

\* the adjacency matrix handed to plot_lattice; adjacency[i + 1][j + 1] is
\* the code's adjacency[i][j]
child_subchild_graph ==
  [i \in 1..Len(concepts) |->
     [j \in 1..Len(concepts) |->
        IF i # j
           /\ concepts[i].data.intension \subseteq concepts[j].data.intension
           /\ concepts[i].data.intension # concepts[j].data.intension
           /\ is_direct_child(concepts[i], concepts[j])
        THEN 1 ELSE 0]]

----
NoCall == [op |-> "none", arg |-> {}, raised |-> FALSE, ret |-> {}]

\* no Reasoner object exists
NoReasoner ==
  /\ implications = <<>>
  /\ knowledge_base = {}
  /\ stack = <<>>
  /\ returned = "none"
  /\ result = "absent"

\* __init__ up to the entry of extract_concepts
Init ==
  /\ relation \in Contexts
  /\ entities = DOMAIN relation
  /\ attributes = attributes_of(relation)
  /\ inverted_relation = invert_relation(relation)
  /\ intensions = <<>>
  /\ curr_closure = {}
  /\ concepts = <<>>
  /\ pc = "extract"
  /\ call = NoCall
  /\ NoReasoner

\* The loop body with the append ahead of the call of next_closure
ExtractLoop_append_first ==
  /\ pc = "extract"
  /\ curr_closure # attributes
  /\ LET r == next_closure(curr_closure)
     IN CASE r.kind = "raise" ->
               /\ pc' = "TypeError"
               /\ UNCHANGED <<curr_closure, intensions>>
          [] r.kind = "none" ->
               /\ pc' = "AttributeError"
               /\ UNCHANGED <<curr_closure, intensions>>
          [] OTHER ->
               /\ pc' = "extract"
               /\ curr_closure' = r.value
               /\ intensions' = Append(intensions, curr_closure)
  /\ UNCHANGED <<relation, entities, attributes, inverted_relation, concepts, call>>
  /\ UNCHANGED reasoner_vars

\* One iteration of the while loop of extract_concepts.  When next_closure
\* returns None, None is appended and the next iteration's next_closure(None)
\* raises AttributeError on None.copy(); the two iterations are one step.
ExtractLoop ==
  /\ pc = "extract"
  /\ curr_closure # attributes
  /\ LET r == next_closure(curr_closure)
     IN CASE r.kind = "raise" ->
               /\ pc' = "TypeError"
               /\ UNCHANGED <<curr_closure, intensions>>
          [] r.kind = "none" ->
               /\ pc' = "AttributeError"
               /\ UNCHANGED <<curr_closure, intensions>>
          [] r.kind = "value" /\ r.value = {} ->
               /\ pc' = "constructed_none"
               /\ curr_closure' = r.value
               /\ UNCHANGED intensions
          [] OTHER ->
               /\ pc' = "extract"
               /\ curr_closure' = r.value
               /\ intensions' = Append(intensions, r.value)
  /\ UNCHANGED <<relation, entities, attributes, inverted_relation, concepts, call>>
  /\ UNCHANGED reasoner_vars

\* The loop ends: the concept list is built and __init__ returns.
ExtractReturn ==
  /\ pc = "extract"
  /\ curr_closure = attributes
  /\ IF \E i \in 1..Len(intensions) : up_raises(intensions[i])
     THEN /\ pc' = "TypeError"
          /\ UNCHANGED concepts
     ELSE /\ pc' = "constructed"
          /\ concepts' =
               [i \in 1..Len(intensions) |->
                  [id |-> i - 1,
                   data |-> [extension |-> up(intensions[i]),
                             intension |-> intensions[i]]]]
  /\ UNCHANGED <<relation, entities, attributes, inverted_relation,
                 intensions, curr_closure, call>>
  /\ UNCHANGED reasoner_vars

\* Method calls on the constructed object.  The program is single-threaded: a
\* call starts when no other call is under way, `call` holds its argument and
\* its outcome, and Return hands the outcome to the caller.  No method writes
\* a field of the object.
ChildSubchildGraphCall ==
  /\ pc = "constructed"
  /\ call = NoCall
  /\ call' = [op |-> "child_subchild_graph", arg |-> {}, raised |-> FALSE,
              ret |-> child_subchild_graph]
  /\ UNCHANGED <<relation, entities, attributes, inverted_relation,
                 intensions, curr_closure, concepts, pc>>
  /\ UNCHANGED reasoner_vars

ClosureAtCall ==
  /\ pc = "constructed"
  /\ call = NoCall
  /\ \E A \in SUBSET (attributes \cap AttrUniverse) :
       call' = [op |-> "closure_at", arg |-> A,
                raised |-> closure_at_raises(A),
                ret |-> IF closure_at_raises(A) THEN {} ELSE closure_at(A)]
  /\ UNCHANGED <<relation, entities, attributes, inverted_relation,
                 intensions, curr_closure, concepts, pc>>
  /\ UNCHANGED reasoner_vars

ClosureEntCall ==
  /\ pc = "constructed"
  /\ call = NoCall
  /\ \E X \in SUBSET (entities \cap Entities) :
       call' = [op |-> "closure_ent", arg |-> X,
                raised |-> closure_ent_raises(X),
                ret |-> IF closure_ent_raises(X) THEN {} ELSE closure_ent(X)]
  /\ UNCHANGED <<relation, entities, attributes, inverted_relation,
                 intensions, curr_closure, concepts, pc>>
  /\ UNCHANGED reasoner_vars

\* ret is the record of next_closure_scan: kind "none" stands for None
NextClosureCall ==
  /\ pc = "constructed"
  /\ call = NoCall
  /\ \E A \in SUBSET (attributes \cap AttrUniverse) :
       call' = [op |-> "next_closure", arg |-> A,
                raised |-> next_closure(A).kind = "raise",
                ret |-> next_closure(A)]
  /\ UNCHANGED <<relation, entities, attributes, inverted_relation,
                 intensions, curr_closure, concepts, pc>>
  /\ UNCHANGED reasoner_vars

UpCall ==
  /\ pc = "constructed"
  /\ call = NoCall
  /\ \E A \in SUBSET AttrUniverse :
       call' = [op |-> "up", arg |-> A,
                raised |-> up_raises(A),
                ret |-> IF up_raises(A) THEN {} ELSE up(A)]
  /\ UNCHANGED <<relation, entities, attributes, inverted_relation,
                 intensions, curr_closure, concepts, pc>>
  /\ UNCHANGED reasoner_vars

DownCall ==
  /\ pc = "constructed"
  /\ call = NoCall
  /\ \E X \in SUBSET Entities :
       call' = [op |-> "down", arg |-> X,
                raised |-> down_raises(X),
                ret |-> IF down_raises(X) THEN {} ELSE down(X)]
  /\ UNCHANGED <<relation, entities, attributes, inverted_relation,
                 intensions, curr_closure, concepts, pc>>
  /\ UNCHANGED reasoner_vars

Return ==
  /\ pc = "constructed"
  /\ call # NoCall
  /\ call' = NoCall
  /\ UNCHANGED <<relation, entities, attributes, inverted_relation,
                 intensions, curr_closure, concepts, pc>>
  /\ UNCHANGED reasoner_vars

Next ==
  \/ ExtractLoop
  \/ ExtractReturn
  \/ ChildSubchildGraphCall
  \/ ClosureAtCall
  \/ ClosureEntCall
  \/ NextClosureCall
  \/ UpCall
  \/ DownCall
  \/ Return

Spec == Init /\ [][Next]_vars

\* __init__ runs to its end: the loop of extract_concepts takes its next
\* iteration, and returns when its condition fails.  Nothing obliges a caller
\* to call a method of the constructed object.
FairSpec == Spec /\ WF_vars(ExtractLoop) /\ WF_vars(ExtractReturn)

----
(***************************************************************************)
(* Reasoner.backward_chain (src/horn_clauses.py).  A proposition is an     *)
(* AtomicProposition or a Conjunction of two atoms, a HornClause has an    *)
(* antecedent and an atomic consequent.  The recursion of backward_chain   *)
(* is a stack of frames; a frame holds its query, the position i of its    *)
(* for loop in the iteration order of self.implications, and where it      *)
(* stands: "start" (before the knowledge-base test), "loop" (at the head   *)
(* of the for loop), "antecedent" (waiting for backward_chain of the       *)
(* antecedent) or "other" (waiting for backward_chain of the other         *)
(* conjunct).                                                              *)
(***************************************************************************)

\* Bounds of the enumerated reasoners.
MaxAtoms == 2
MaxClauses == 2

AtomNames == <<"A", "B", "C", "D">>

AtomicProposition(p) == [kind |-> "atom", proposition |-> p]

Conjunction(l, r) ==
  [kind |-> "conj", left_conjunct |-> l, right_conjunct |-> r]

HornClause(a, c) == [antecedent |-> a, consequent |-> c]

Atoms == {AtomicProposition(AtomNames[i]) : i \in 1..MaxAtoms}

Queries == Atoms \cup {Conjunction(l, r) : l \in Atoms, r \in Atoms}

Clauses == {HornClause(a, c) : a \in Queries, c \in Atoms}

\* the sets of at most MaxClauses clauses, each in every iteration order
ImplicationOrders ==
  UNION {{s \in [1..n -> Clauses] : \A i, j \in 1..n : s[i] = s[j] => i = j} :
           n \in 0..MaxClauses}

\* the reasoner of the main block: A -> B, B & C -> D, D -> E, facts A and C
atomA == AtomicProposition("timmy is cool")
atomB == AtomicProposition("timmy is friendly")
atomC == AtomicProposition("timmy is motivated")
atomD == AtomicProposition("timmy is successful")
atomE == AtomicProposition("timmy is happy")
main_implications ==
  {HornClause(atomA, atomB), HornClause(Conjunction(atomB, atomC), atomD),
   HornClause(atomD, atomE)}

MainOrders ==
  {s \in [1..3 -> main_implications] : \A i, j \in 1..3 : s[i] = s[j] => i = j}

query_satisfied_by_knowledge_base(query) ==
  IF query.kind = "atom"
  THEN query \in knowledge_base
  ELSE query.left_conjunct \in knowledge_base
       /\ query.right_conjunct \in knowledge_base

NewFrame(query) == [query |-> query, i |-> 1, phase |-> "start", other |-> query]

Top == stack[Len(stack)]

\* no ConceptLattice object exists
NoLattice ==
  /\ relation = <<>>
  /\ entities = {}
  /\ attributes = {}
  /\ inverted_relation = <<>>
  /\ intensions = <<>>
  /\ curr_closure = {}
  /\ concepts = <<>>
  /\ pc = "absent"
  /\ call = NoCall

\* Reasoner.__init__ and the entry of the outermost backward_chain(query)
ReasonerInit ==
  /\ NoLattice
  /\ \/ /\ implications \in ImplicationOrders
        /\ knowledge_base \in SUBSET Atoms
        /\ \E query \in Queries : stack = <<NewFrame(query)>>
     \/ /\ implications \in MainOrders
        /\ knowledge_base = {atomA, atomC}
        /\ stack = <<NewFrame(atomE)>>
  /\ returned = "none"
  /\ result = "running"

\* the innermost frame returns ret
ReturnFrom(ret) ==
  /\ stack' = SubSeq(stack, 1, Len(stack) - 1)
  /\ returned' = ret
  /\ result' = IF Len(stack) = 1 THEN ret ELSE result

\* The innermost frame, left as `caller`, calls backward_chain(query).  The
\* knowledge base, the implications and their iteration order never change
\* during the recursion, so a call whose query is the query of a frame on the
\* stack repeats that frame's steps and calls itself again without end:
\* Python raises RecursionError at the recursion limit.
CallBackwardChain(caller, query) ==
  IF \E k \in 1..Len(stack) : stack[k].query = query
  THEN /\ result' = "RecursionError"
       /\ stack' = <<>>
       /\ returned' = "none"
  ELSE /\ stack' = Append([stack EXCEPT ![Len(stack)] = caller], NewFrame(query))
       /\ returned' = "none"
       /\ UNCHANGED result

\* the for loop of the innermost frame moves to its next implication
NextImplication ==
  /\ stack' = [stack EXCEPT ![Len(stack)] =
                 [Top EXCEPT !.i = Top.i + 1, !.phase = "loop"]]
  /\ returned' = "none"
  /\ UNCHANGED result

\* lines 100-101: the knowledge-base test at the entry of a call
BackwardChainEnter ==
  /\ result = "running"
  /\ stack # <<>>
  /\ Top.phase = "start"
  /\ IF query_satisfied_by_knowledge_base(Top.query)
     THEN ReturnFrom("True")
     ELSE /\ stack' = [stack EXCEPT ![Len(stack)] = [Top EXCEPT !.phase = "loop"]]
          /\ UNCHANGED <<returned, result>>
  /\ UNCHANGED <<implications, knowledge_base>>
  /\ UNCHANGED lattice_vars

\* lines 103-105 and 108-113: the head of the for loop, up to the recursive
\* call on the antecedent; line 116 when the loop is exhausted
BackwardChainLoop ==
  /\ result = "running"
  /\ stack # <<>>
  /\ Top.phase = "loop"
  /\ IF Top.i > Len(implications)
     THEN ReturnFrom("False")
     ELSE LET implication == implications[Top.i]
              query == Top.query
          IN IF query.kind = "atom"
             THEN IF implication.consequent = query
                  THEN CallBackwardChain([Top EXCEPT !.phase = "antecedent"],
                                         implication.antecedent)
                  ELSE NextImplication
             ELSE IF implication.consequent = query.left_conjunct
                  THEN CallBackwardChain(
                         [Top EXCEPT !.phase = "antecedent",
                                     !.other = query.right_conjunct],
                         implication.antecedent)
                  ELSE IF implication.consequent = query.right_conjunct
                  THEN CallBackwardChain(
                         [Top EXCEPT !.phase = "antecedent",
                                     !.other = query.left_conjunct],
                         implication.antecedent)
                  ELSE NextImplication
  /\ UNCHANGED <<implications, knowledge_base>>
  /\ UNCHANGED lattice_vars

\* a recursive call has returned to the innermost frame: lines 105-106 for an
\* atomic query, the `and` of lines 110 and 113 for a conjunction
BackwardChainResume ==
  /\ result = "running"
  /\ stack # <<>>
  /\ Top.phase \in {"antecedent", "other"}
  /\ IF returned = "False"
     THEN NextImplication
     ELSE IF Top.phase = "antecedent" /\ Top.query.kind = "conj"
          THEN CallBackwardChain([Top EXCEPT !.phase = "other"], Top.other)
          ELSE ReturnFrom("True")
  /\ UNCHANGED <<implications, knowledge_base>>
  /\ UNCHANGED lattice_vars

ReasonerNext ==
  \/ BackwardChainEnter
  \/ BackwardChainLoop
  \/ BackwardChainResume

ReasonerSpec == ReasonerInit /\ [][ReasonerNext]_vars

----
\* Helpers of the properties.

Intensions(cs) == {cs[i].data.intension : i \in 1..Len(cs)}

ConceptPairs(cs) ==
  {<<cs[i].data.intension, cs[i].data.extension>> : i \in 1..Len(cs)}

\* the edges i -> j of an adjacency matrix, as pairs of intensions
EdgePairs(adjacency) ==
  {<<concepts[e[1]].data.intension, concepts[e[2]].data.intension>> :
     e \in {f \in (1..Len(adjacency)) \X (1..Len(adjacency)) :
              adjacency[f[1]][f[2]] = 1}}

Constructed == pc = "constructed"

Failed == pc \in {"AttributeError", "TypeError", "constructed_none"}

Min(S) == CHOOSE x \in S : \A y \in S : x <= y

SymDiff(P, Q) == (P \ Q) \cup (Q \ P)

StrictSubset(S, T) == S \subseteq T /\ S # T

RECURSIVE TransitiveClosure(_)
TransitiveClosure(R) ==
  LET R2 == R \cup {<<pq[1][1], pq[2][2]>> :
                      pq \in {x \in R \X R : x[1][2] = x[2][1]}}
  IN IF R2 = R THEN R ELSE TransitiveClosure(R2)

----
\* Scenario A: the relation of the main block.

----
\* Scenario B: {e1: {a, b}, e2: {b, c}} with a, b, c = 1, 2, 3.

ScenarioB == [e \in {"e1", "e2"} |-> IF e = "e1" THEN {1, 2} ELSE {2, 3}]

\* C2: on scenario B the concept list has exactly the four concepts
\* {b}->{e1,e2}, {a,b}->{e1}, {b,c}->{e2}, {a,b,c}->{}, and the cover edges
\* are exactly {b}->{a,b}, {b}->{b,c}, {a,b}->{a,b,c}, {b,c}->{a,b,c}.
C2_ScenarioB ==
  relation = ScenarioB =>
    /\ ~Failed
    /\ Constructed =>
         /\ Len(concepts) = 4
         /\ ConceptPairs(concepts) =
              { <<{2}, {"e1", "e2"}>>, <<{1, 2}, {"e1"}>>,
                <<{2, 3}, {"e2"}>>, <<{1, 2, 3}, {}>> }
         /\ call.op = "child_subchild_graph" =>
              EdgePairs(call.ret) =
                { <<{2}, {1, 2}>>, <<{2}, {2, 3}>>,
                  <<{1, 2}, {1, 2, 3}>>, <<{2, 3}, {1, 2, 3}>> }

C2_Witness ==
  /\ relation = ScenarioB
  /\ Constructed
  /\ call.op = "child_subchild_graph"
  /\ Len(call.ret) = 4
----
\* C3: the intensions of the concept list are exactly the closures
\* closure_at(A) of all subsets A of the attribute universe, the empty
\* universe included.
C3_Completeness ==
  (Constructed /\ call = NoCall) =>
    Intensions(concepts) = {closure_at(A) : A \in SUBSET attributes}

\* C4: at every point of the enumeration loop the intensions appended so far
\* are strictly increasing in the lectic order (the smallest attribute of the
\* symmetric difference of consecutive intensions P, Q belongs to Q), and no
\* intension occurs twice.
C4_LecticIncreasing ==
  /\ \A i \in 1..(Len(intensions) - 1) :
       LET D == SymDiff(intensions[i], intensions[i + 1])
       IN D # {} /\ Min(D) \in intensions[i + 1]
  /\ \A i, j \in 1..Len(intensions) :
       intensions[i] = intensions[j] => i = j

C4_Witness ==
  /\ pc = "extract"
  /\ Len(intensions) >= 3
  /\ curr_closure # attributes

\* C5: every concept of the concept list is a fixed point of the program's
\* up and down: up(intension) = extension and down(extension) = intension.
C5_RoundTrip ==
  Constructed =>
    \A i \in 1..Len(concepts) :
      LET c == concepts[i].data
      IN /\ ~up_raises(c.intension)
         /\ up(c.intension) = c.extension
         /\ ~down_raises(c.extension)
         /\ down(c.extension) = c.intension

C5_Witness ==
  /\ Constructed
  /\ \E i, j \in 1..Len(concepts) :
       /\ concepts[i].data.extension = {}
       /\ Cardinality(concepts[j].data.extension) >= 2

\* C6: the adjacency built by child_subchild_graph is the transitive reduction
\* of the strict-subset order on the intensions of the concepts: no
\* self-loop, no cycle, an edge exactly where no third intension lies
\* strictly between, and a path of edges exactly between the strict-subset
\* pairs.
C6_TransitiveReduction ==
  (Constructed /\ call.op = "child_subchild_graph") =>
    LET n == Len(concepts)
        adjacency == call.ret
        I(i) == concepts[i].data.intension
        E == {e \in (1..n) \X (1..n) : adjacency[e[1]][e[2]] = 1}
        Sub == {e \in (1..n) \X (1..n) : StrictSubset(I(e[1]), I(e[2]))}
        Paths == TransitiveClosure(E)
    IN /\ Len(adjacency) = n
       /\ \A i \in 1..n : adjacency[i][i] = 0
       /\ \A i \in 1..n : <<i, i>> \notin Paths
       /\ E = {e \in Sub :
                 ~\E k \in 1..n : <<e[1], k>> \in Sub /\ <<k, e[2]>> \in Sub}
       /\ Paths = Sub

C6_Witness ==
  /\ Constructed
  /\ call.op = "child_subchild_graph"
  /\ \E i, j, k \in 1..Len(concepts) :
       /\ call.ret[i][j] = 1
       /\ call.ret[j][k] = 1
       /\ call.ret[i][k] = 0

\* C7: closure_at is monotone: for A a subset of B (A empty included)
\* closure_at(A) is a subset of closure_at(B).
C7_Monotone ==
  (call.op = "closure_at" /\ ~call.raised) =>
    \A B \in SUBSET attributes :
      call.arg \subseteq B => call.ret \subseteq closure_at(B)

\* C8: closure_at is extensive and idempotent on every subset A of the
\* attribute universe: it raises nothing, A is a subset of closure_at(A) and
\* closure_at(closure_at(A)) = closure_at(A).
C8_ExtensiveIdempotent ==
  call.op = "closure_at" =>
    /\ ~call.raised
    /\ call.arg \subseteq call.ret
    /\ ~closure_at_raises(call.ret)
    /\ closure_at(call.ret) = call.ret

C8_Witness ==
  /\ call.op = "closure_at"
  /\ call.arg # {}
  /\ call.arg # call.ret
  /\ call.ret # attributes

\* C9: closure_ent(X) = up(down(X)) contains X for every subset X of the
\* entities.
C9_EntityExtensive ==
  (call.op = "closure_ent" /\ ~call.raised) => call.arg \subseteq call.ret

\* C10: with an empty attribute universe construction raises nothing and the
\* concept list has exactly one concept.
C10_EmptyUniverseOneConcept ==
  attributes = {} =>
    /\ ~Failed
    /\ Constructed => Len(concepts) = 1
----
\* C11: up never fails on attributes missing from the inverted relation: for
\* every non-empty attribute set A, also one none of whose members is a key
\* of the inverted relation, up(A) raises nothing and returns the
\* intersection of the entity sets of the members of A that are keys.
C11_UpNeverRaises ==
  (call.op = "up" /\ call.arg # {}) =>
    /\ ~call.raised
    /\ \A e \in entities :
         e \in call.ret <=>
           \A a \in call.arg \cap DOMAIN inverted_relation :
             e \in inverted_relation[a]
----
\* C12: the first intension of the concept list is closure_at of the empty
\* set, for every context with a non-empty concept list.
C12_StartsAtClosureOfEmpty ==
  (Constructed /\ Len(concepts) > 0) =>
    /\ ~closure_at_raises({})
    /\ concepts[1].data.intension = closure_at({})
----
----
\* C14: every intension of the concept list is non-empty: the empty set is
\* the seed of next_closure and is never appended, also for a context in which
\* no attribute is shared by all entities.
C14_NoEmptyIntension ==
  /\ \A i \in 1..Len(intensions) : intensions[i] # {}
  /\ \A i \in 1..Len(concepts) : concepts[i].data.intension # {}

\* a constructed lattice of a context whose entities share no attribute
C14_Witness ==
  /\ Constructed
  /\ Len(concepts) >= 2
  /\ entities # {}
  /\ \A a \in attributes : inverted_relation[a] # entities
----
\* C15: backward_chain terminates, returning True or False, for every set of
\* Horn clauses, every knowledge base and every atomic or conjunctive query,
\* cyclic implications included: the recursion never runs into RecursionError.
C15_BackwardChainTerminates == result # "RecursionError"
====
